---- MODULE Spec2Model ----
(***************************************************************************)
(* A model of src/PatchTST/PatchTST.py: the preprocessing script that      *)
(* turns a time-ordered table into train/validation/test windowed          *)
(* datasets for a PatchTST forecaster.                                     *)
(*                                                                         *)
(* A table is a record [columns, rows]; columns is the sequence of column  *)
(* names (the timestamp column first), rows the sequence of rows, a row    *)
(* the sequence of its cells in column order.  A cell is an exact number   *)
(* [n, d, r] standing for (n/d)^(1/r), or NaN (d = 0).  Timestamps are     *)
(* cells too: whole hours counted from 2016-07-01 00:00, the first stamp   *)
(* of ../data/ETTh1.csv.  float32/float64 rounding of scaled values is not *)
(* modelled (cells are exact); the float64 products of the split are.      *)
(***************************************************************************)
EXTENDS Integers, Sequences, FiniteSets, TLC

VARIABLES pc, dataframes, dataset, context_length, forecast_horizon,
          scaler, num_train, num_test, num_valid,
          train_dataset, valid_dataset, test_dataset, config, messages

vars == <<pc, dataframes, dataset, context_length, forecast_horizon,
          scaler, num_train, num_test, num_valid,
          train_dataset, valid_dataset, test_dataset, config, messages>>

-----------------------------------------------------------------------------
(* Exact numbers *)

RECURSIVE GCD(_, _)
GCD(a, b) == IF b = 0 THEN a ELSE GCD(b, a % b)

Abs(a) == IF a < 0 THEN -a ELSE a

NaN == [n |-> 0, d |-> 0, r |-> 1]

IsNaN(c) == c.d = 0

\* n/d in lowest terms, d > 0
Rat(n, d) ==
    LET g == GCD(Abs(n), Abs(d))
        s == IF d < 0 THEN -1 ELSE 1
    IN  [n |-> (s * n) \div g, d |-> (s * d) \div g, r |-> 1]

Num(v) == [n |-> v, d |-> 1, r |-> 1]

\* arithmetic of floats: NaN is absorbing
RAdd(a, b) == IF IsNaN(a) \/ IsNaN(b) THEN NaN ELSE Rat(a.n * b.d + b.n * a.d, a.d * b.d)
RSub(a, b) == IF IsNaN(a) \/ IsNaN(b) THEN NaN ELSE Rat(a.n * b.d - b.n * a.d, a.d * b.d)
RMul(a, b) == IF IsNaN(a) \/ IsNaN(b) THEN NaN ELSE Rat(a.n * b.n, a.d * b.d)
RDiv(a, b) == IF IsNaN(a) \/ IsNaN(b) \/ b.n = 0 THEN NaN ELSE Rat(a.n * b.d, a.d * b.n)

\* comparisons of floats: any comparison with NaN is False
RLess(a, b) == ~IsNaN(a) /\ ~IsNaN(b) /\ a.n * b.d < b.n * a.d
RLeq(a, b)  == ~IsNaN(a) /\ ~IsNaN(b) /\ a.n * b.d <= b.n * a.d

-----------------------------------------------------------------------------
(* IEEE-754 double arithmetic of the split: int(len(dataset) * 0.7).       *)
(* A double constant is mant * 2^exp, mant given by its hexadecimal digits *)
(* (most significant first); bit strings are sequences, least significant  *)
(* bit first.                                                              *)

\* float.hex(0.7) = 0x1.6666666666666p-1
Double07 == [hex |-> <<1, 6, 6, 6, 6, 6, 6, 6, 6, 6, 6, 6, 6, 6>>, exp |-> -53]

\* float.hex(0.2) = 0x1.999999999999ap-3
Double02 == [hex |-> <<1, 9, 9, 9, 9, 9, 9, 9, 9, 9, 9, 9, 9, 10>>, exp |-> -55]

Pow2(k) == CASE k = 0 -> 1 [] k = 1 -> 2 [] k = 2 -> 4 [] k = 3 -> 8

BitsOf(hex) ==
    [k \in 1..(4 * Len(hex)) |->
        (hex[Len(hex) - ((k - 1) \div 4)] \div Pow2((k - 1) % 4)) % 2]

\* the exact product bits * n, by long multiplication
RECURSIVE MulCarry(_, _, _, _)
MulCarry(bits, n, i, carry) ==
    IF i > Len(bits) /\ carry = 0 THEN <<>>
    ELSE LET t == (IF i <= Len(bits) THEN n * bits[i] ELSE 0) + carry
         IN  <<t % 2>> \o MulCarry(bits, n, i + 1, t \div 2)

RECURSIVE BitLen(_, _)
BitLen(bits, i) == IF i = 0 \/ bits[i] = 1 THEN i ELSE BitLen(bits, i - 1)

RECURSIVE IncFrom(_, _)
IncFrom(bits, i) ==
    IF i > Len(bits) THEN <<1>>
    ELSE IF bits[i] = 0 THEN <<1>> \o SubSeq(bits, i + 1, Len(bits))
    ELSE <<0>> \o IncFrom(bits, i + 1)

RECURSIVE BitsToInt(_, _)
BitsToInt(bits, i) == IF i > Len(bits) THEN 0 ELSE bits[i] + 2 * BitsToInt(bits, i + 1)

\* int(float(n) * dbl) for an integer n >= 0: the exact product rounded to a
\* 53-bit significand, ties to even, then truncated to an integer
FloatMulToInt(n, dbl) ==
    LET P == MulCarry(BitsOf(dbl.hex), n, 1, 0)
        L == BitLen(P, Len(P))
        d == IF L > 53 THEN L - 53 ELSE 0
        kept == SubSeq(P, d + 1, L)
        guard == d > 0 /\ P[d] = 1
        sticky == \E i \in 1..(d - 1) : P[i] = 1
        up == guard /\ (sticky \/ kept[1] = 1)
        rounded == IF up THEN IncFrom(kept, 1) ELSE kept
        frac == (0 - dbl.exp) - d
    IN  BitsToInt(rounded, frac + 1)

-----------------------------------------------------------------------------
(* Tables *)

\* f itself, evaluated once over its whole domain
Eager(f) == f @@ <<>>

NRows(t) == Len(t.rows)

NCols(t) == Len(t.columns)

ColIdx(t, name) == CHOOSE j \in 1..NCols(t) : t.columns[j] = name

Column(t, j) == [i \in 1..NRows(t) |-> t.rows[i][j]]

\* the positions S in increasing order
InOrder(S) ==
    [k \in 1..Cardinality(S) |-> CHOOSE j \in S : Cardinality({x \in S : x < j}) = k - 1]

\* the names of the columns at positions S, in column order
ColumnNames(t, S) == [k \in 1..Cardinality(S) |-> t.columns[InOrder(S)[k]]]

HasNaN(t) == \E i \in 1..NRows(t) : \E j \in 1..NCols(t) : IsNaN(t.rows[i][j])

AllNaN(t, j) == \A i \in 1..NRows(t) : IsNaN(t.rows[i][j])

\* pandas/numpy quantile q = qn/qd of a column: NaN skipped, linear
\* interpolation between the two nearest order statistics
Quantile(col, qn, qd) ==
    LET present == {i \in DOMAIN col : ~IsNaN(col[i])}
        n == Cardinality(present)
        vals == {col[i] : i \in present}
        Kth(k) == CHOOSE v \in vals :
                      /\ Cardinality({i \in present : RLess(col[i], v)}) <= k
                      /\ k < Cardinality({i \in present : RLeq(col[i], v)})
        lo == ((n - 1) * qn) \div qd
        fr == ((n - 1) * qn) % qd
    IN  IF n = 0 THEN NaN
        ELSE IF fr = 0 THEN Kth(lo)
        ELSE RAdd(Kth(lo), RMul(RSub(Kth(lo + 1), Kth(lo)), Rat(fr, qd)))

RECURSIVE LastValid(_, _, _)
LastValid(rows, i, j) ==
    IF i = 1 \/ ~IsNaN(rows[i][j]) THEN rows[i][j] ELSE LastValid(rows, i - 1, j)

RECURSIVE NextValid(_, _, _)
NextValid(rows, i, j) ==
    IF i = Len(rows) \/ ~IsNaN(rows[i][j]) THEN rows[i][j] ELSE NextValid(rows, i + 1, j)

\* DataFrame.ffill: a missing cell takes the last earlier valid value of its column
ffill(t) ==
    [t EXCEPT !.rows = [i \in 1..NRows(t) |-> [j \in 1..NCols(t) |-> LastValid(t.rows, i, j)]]]

\* DataFrame.bfill: a missing cell takes the next later valid value of its column
bfill(t) ==
    [t EXCEPT !.rows = [i \in 1..NRows(t) |-> [j \in 1..NCols(t) |-> NextValid(t.rows, i, j)]]]

-----------------------------------------------------------------------------
(* Script constants *)

timestamp_column == "date"

index_start == 1

rolling_window == 5

source_context_length == 512

source_forecast_horizon == 96

\* the columns of ../data/ETTh1.csv after the timestamp
ETTh1Channels == <<"HUFL", "HULL", "MUFL", "MULL", "LUFL", "LULL", "OT">>

\* a variant that takes index_start for a 1-based position: the timestamp included
FeatureColsFromTimestamp(t) == index_start..NCols(t)

\* dataset.columns[index_start:] and dataset.iloc[:, index_start:], as column positions
FeatureCols(t) == (index_start + 1)..NCols(t)

-----------------------------------------------------------------------------
(* Lines 50-61: IQR outlier removal, forward fill, backward fill *)

\* select_dtypes(include=[np.number]): every column but the parsed timestamp
numeric_columns(t) == {j \in 1..NCols(t) : t.columns[j] # timestamp_column}

Q1(t, j) == Quantile(Column(t, j), 1, 4)

Q3(t, j) == Quantile(Column(t, j), 3, 4)

IQR(t, j) == RSub(Q3(t, j), Q1(t, j))

LowerFence(t, j) == RSub(Q1(t, j), RMul(Rat(3, 2), IQR(t, j)))

UpperFence(t, j) == RAdd(Q3(t, j), RMul(Rat(3, 2), IQR(t, j)))

\* a variant of line 57 that tests the upper fence only
RemoveOutliersUpperOnly(t) ==
    LET hi == Eager([j \in numeric_columns(t) |-> UpperFence(t, j)])
        Outlier(row) == \E j \in numeric_columns(t) : RLess(hi[j], row[j])
    IN  [t EXCEPT !.rows = SelectSeq(t.rows, LAMBDA row : ~Outlier(row))]

\* line 57: keep the rows with no numeric cell outside its column's fences
RemoveOutliers(t) ==
    LET lo == Eager([j \in numeric_columns(t) |-> LowerFence(t, j)])
        hi == Eager([j \in numeric_columns(t) |-> UpperFence(t, j)])
        Outlier(row) == \E j \in numeric_columns(t) :
                            RLess(row[j], lo[j]) \/ RLess(hi[j], row[j])
    IN  [t EXCEPT !.rows = SelectSeq(t.rows, LAMBDA row : ~Outlier(row))]

\* a variant of lines 60-61 without the backward fill
FillForwardOnly(t) == ffill(t)

\* lines 60-61 and 86-87
FillMissing(t) == bfill(ffill(t))

-----------------------------------------------------------------------------
(* Lines 63-67: calendar features of the timestamp *)

\* days of July .. December 2016
MonthLengths == <<31, 31, 30, 31, 30, 31>>

RECURSIVE MonthOf(_, _)
MonthOf(day, k) ==
    IF day < MonthLengths[k] THEN [month |-> 6 + k, day |-> day + 1]
    ELSE MonthOf(day - MonthLengths[k], k + 1)

\* 2016-07-01 is a Friday: pandas dayofweek 4
DayOfWeek(h) == (4 + (h \div 24)) % 7

DayOfMonth(h) == MonthOf(h \div 24, 1).day

Month(h) == MonthOf(h \div 24, 1).month

Hour(h) == h % 24

TimeFeatures(t) ==
    LET ts == ColIdx(t, timestamp_column)
    IN  [columns |-> t.columns \o <<"day_of_week", "day_of_month", "month", "hour">>,
         rows |-> [i \in 1..NRows(t) |->
                     LET h == t.rows[i][ts].n
                     IN  t.rows[i] \o <<Num(DayOfWeek(h)), Num(DayOfMonth(h)),
                                        Num(Month(h)), Num(Hour(h))>>]]

-----------------------------------------------------------------------------
(* Lines 69-77: RobustScaler.fit_transform on dataset.iloc[:, index_start:] *)

\* the positions (iloc, from 0) of the rows handed to the fit
FitRows(t) == 0..(NRows(t) - 1)

\* RobustScaler.fit: per column the median and the 25-75 quantile range of the
\* rows FitRows(t) of t; a zero range is replaced by 1.  The state also keeps how
\* often and on which rows it was fitted.
RobustFit(t) ==
    LET rows == {p + 1 : p \in FitRows(t)}
        fitcol(j) == [i \in rows |-> t.rows[i][j]]
        range(j) == RSub(Quantile(fitcol(j), 3, 4), Quantile(fitcol(j), 1, 4))
    IN  [n_fits |-> 1,
         fit_rows |-> FitRows(t),
         feature_names_in |-> ColumnNames(t, FeatureCols(t)),
         center |-> Eager([j \in FeatureCols(t) |-> Quantile(fitcol(j), 1, 2)]),
         scale |-> Eager([j \in FeatureCols(t) |->
                      IF ~IsNaN(range(j)) /\ range(j).n = 0 THEN Num(1) ELSE range(j)])]

\* RobustScaler.transform: (x - center) / scale, elementwise
RobustTransform(st, t) ==
    [t EXCEPT !.rows = [i \in 1..NRows(t) |-> [j \in 1..NCols(t) |->
        IF j \in FeatureCols(t)
        THEN RDiv(RSub(t.rows[i][j], st.center[j]), st.scale[j])
        ELSE t.rows[i][j]]]]

-----------------------------------------------------------------------------
(* Lines 79-83: lag and rolling features *)

LCM(a, b) == (a \div GCD(a, b)) * b

\* the window of `rolling_window` rows ending at row i of column j
WindowCells(t, i, j) == [k \in 1..rolling_window |-> t.rows[i - rolling_window + k][j]]

WindowValid(t, i, j) ==
    /\ i >= rolling_window
    /\ \A k \in 1..rolling_window : ~IsNaN(WindowCells(t, i, j)[k])

RECURSIVE SumUpTo(_, _)
SumUpTo(f, k) == IF k = 0 THEN 0 ELSE f[k] + SumUpTo(f, k - 1)

RECURSIVE LCMUpTo(_, _)
LCMUpTo(f, k) == IF k = 0 THEN 1 ELSE LCM(f[k], LCMUpTo(f, k - 1))

\* the window's numerators over its common denominator
WindowNums(w) ==
    LET L == LCMUpTo([k \in DOMAIN w |-> w[k].d], Len(w))
    IN  [den |-> L, nums |-> [k \in DOMAIN w |-> w[k].n * (L \div w[k].d)]]

\* Series.shift(1)
Lag1(t, i, j) == IF i = 1 THEN NaN ELSE t.rows[i - 1][j]

\* Series.rolling(window=5).mean(): NaN until the window is full
RollingMean(t, i, j) ==
    IF ~WindowValid(t, i, j) THEN NaN
    ELSE LET c == WindowNums(WindowCells(t, i, j))
         IN  Rat(SumUpTo(c.nums, rolling_window), rolling_window * c.den)

\* Series.rolling(window=5).std(): the sample standard deviation (ddof = 1)
RollingStd(t, i, j) ==
    IF ~WindowValid(t, i, j) THEN NaN
    ELSE LET c == WindowNums(WindowCells(t, i, j))
             s == SumUpTo(c.nums, rolling_window)
             sq == SumUpTo([k \in DOMAIN c.nums |-> c.nums[k] * c.nums[k]], rolling_window)
             var == Rat(rolling_window * sq - s * s,
                        rolling_window * (rolling_window - 1) * c.den * c.den)
         IN  [var EXCEPT !.r = 2]

\* a variant of line 80 that loops over dataset.columns, the timestamp included
LagSourceAllCols(t) == 1..NCols(t)

\* the columns the loop of line 80 iterates over: dataset.columns[index_start:]
\* as it stands when the loop starts
LagSourceCols(t) == FeatureCols(t)

\* lines 80-83: three new columns per source column, appended in loop order
LagRolling(t) ==
    LET src == InOrder(LagSourceCols(t))
        NewNames(j) == <<t.columns[j] \o "_lag1", t.columns[j] \o "_rolling_mean",
                         t.columns[j] \o "_rolling_std">>
        NewCells(i, j) == <<Lag1(t, i, j), RollingMean(t, i, j), RollingStd(t, i, j)>>
        AllNames[k \in 0..Len(src)] ==
            IF k = 0 THEN <<>> ELSE AllNames[k - 1] \o NewNames(src[k])
        AllCells(i) ==
            LET acc[k \in 0..Len(src)] ==
                    IF k = 0 THEN <<>> ELSE acc[k - 1] \o NewCells(i, src[k])
            IN  acc[Len(src)]
    IN  [columns |-> t.columns \o AllNames[Len(src)],
         rows |-> [i \in 1..NRows(t) |-> t.rows[i] \o AllCells(i)]]

-----------------------------------------------------------------------------
(* Lines 89-97: chronological split *)

NumTrain(n) == FloatMulToInt(n, Double07)

NumTest(n) == FloatMulToInt(n, Double02)

\* a variant of line 92 that forgets the test rows
NumValidRest(n) == n - NumTrain(n)

NumValid(n) == n - NumTrain(n) - NumTest(n)

\* DataFrame.iloc[a:b].reset_index(drop=True) for 0 <= a, with b clipped to the length
ILoc(t, a, b) ==
    [t EXCEPT !.rows = SubSeq(t.rows, a + 1, IF b < NRows(t) THEN b ELSE NRows(t))]

TrainSlice(t) == ILoc(t, 0, NumTrain(NRows(t)))

ValidSlice(t) == ILoc(t, NumTrain(NRows(t)), NumTrain(NRows(t)) + NumValid(NRows(t)))

\* a variant of line 97 that starts the test segment where training ends
TestSliceFromTrainEnd(t) == ILoc(t, NumTrain(NRows(t)), NRows(t))

TestSlice(t) == ILoc(t, NumTrain(NRows(t)) + NumValid(NRows(t)), NRows(t))

-----------------------------------------------------------------------------
(* Lines 99-122: models.ForecastDFDataset, the sliding-window indexer.  Its *)
(* source is not part of src/; it is modelled from section 4.5 of the      *)
(* specification.                                                          *)

EmptyTable == [columns |-> <<>>, rows |-> <<>>]

Unset == [kind |-> "unset", data_df |-> EmptyTable, target_columns |-> <<>>,
          context_length |-> 0, prediction_length |-> 0]

DataFrame(t) == [Unset EXCEPT !.kind = "DataFrame", !.data_df = t]

ForecastDFDataset(df, targets, ctx, pred) ==
    [kind |-> "ForecastDFDataset", data_df |-> df, target_columns |-> targets,
     context_length |-> ctx, prediction_length |-> pred]

\* len(ds): the number of stride-1 windows
DatasetLen(ds) ==
    LET k == NRows(ds.data_df) - ds.context_length - ds.prediction_length + 1
    IN  IF k > 0 THEN k ELSE 0

\* ds[i], 0 <= i < len(ds), as the (1-based) row positions of the segment
ContextRows(ds, i) == (i + 1)..(i + ds.context_length)

TargetRows(ds, i) ==
    (i + ds.context_length + 1)..(i + ds.context_length + ds.prediction_length)

-----------------------------------------------------------------------------
(* Inputs *)

\* small tables have at most MaxRows rows
MaxRows == 5

\* single-channel series of every length up to MaxSeriesRows
MaxSeriesRows == 90

\* the 1000-row series of the end-to-end scenario
ScenarioRows == 1000

CellValues == {NaN, Num(0), Num(9)}

SparseValues == {NaN, Num(9)}

DenseValues == {Num(0), Num(9)}

\* a table read by line 47: hourly stamps in increasing order, then the channels
RawTable(c, cells) ==
    [columns |-> <<timestamp_column>> \o SubSeq(ETTh1Channels, 1, c),
     rows |-> [i \in DOMAIN cells |-> <<Num(i - 1)>> \o cells[i]]]

\* every table of one channel
OneChannelTables ==
    UNION {{RawTable(1, cells) : cells \in [1..r -> [1..1 -> CellValues]]} :
           r \in 0..MaxRows}

\* tables of two channels: a sparse one (missing or 9) beside a dense one (0 or 9)
TwoChannelTables ==
    UNION {{RawTable(2, cells) : cells \in [1..r -> SparseValues \X DenseValues]} :
           r \in 0..(MaxRows - 1)}

SmallTables == OneChannelTables \cup TwoChannelTables

SeriesTable(n) == RawTable(1, [i \in 1..n |-> <<Num(IF i % 2 = 0 THEN 9 ELSE 0)>>])

SeriesTables == {SeriesTable(n) : n \in (0..MaxSeriesRows) \cup {ScenarioRows}}

\* <<context_length, forecast_horizon>>: lines 33-34 as written, the scenario's
\* 50/10, and the shortest windows, which fit small segments
Hyperparameters ==
    {<<source_context_length, source_forecast_horizon>>, <<50, 10>>, <<1, 1>>}

Runs == (SmallTables \X {<<1, 1>>}) \cup (SeriesTables \X Hyperparameters)

-----------------------------------------------------------------------------
(* The script, statement by statement *)

NoScaler == [n_fits |-> 0, fit_rows |-> {}, feature_names_in |-> <<>>,
             center |-> <<>>, scale |-> <<>>]

NoConfig == [num_input_channels |-> 0, context_length |-> 0, prediction_length |-> 0]

\* the state after line 48: the files are read and concatenated
Init ==
    \E run \in Runs :
        /\ pc = "outliers"
        /\ dataframes = <<run[1]>>
        /\ dataset = run[1]
        /\ context_length = run[2][1]
        /\ forecast_horizon = run[2][2]
        /\ scaler = NoScaler
        /\ num_train = 0
        /\ num_test = 0
        /\ num_valid = 0
        /\ train_dataset = Unset
        /\ valid_dataset = Unset
        /\ test_dataset = Unset
        /\ config = NoConfig
        /\ messages = <<>>

\* lines 51-57
Outliers ==
    /\ pc = "outliers"
    /\ dataset' = RemoveOutliers(dataset)
    /\ pc' = "fill"
    /\ UNCHANGED <<dataframes, context_length, forecast_horizon, scaler, num_train,
                   num_test, num_valid, train_dataset, valid_dataset, test_dataset,
                   config, messages>>

\* lines 60-61
Fill ==
    /\ pc = "fill"
    /\ dataset' = FillMissing(dataset)
    /\ pc' = "features"
    /\ UNCHANGED <<dataframes, context_length, forecast_horizon, scaler, num_train,
                   num_test, num_valid, train_dataset, valid_dataset, test_dataset,
                   config, messages>>

\* lines 64-67
Features ==
    /\ pc = "features"
    /\ dataset' = TimeFeatures(dataset)
    /\ pc' = "scale"
    /\ UNCHANGED <<dataframes, context_length, forecast_horizon, scaler, num_train,
                   num_test, num_valid, train_dataset, valid_dataset, test_dataset,
                   config, messages>>

\* lines 70-77; sklearn refuses to fit an array of 0 samples (ValueError)
Scale ==
    /\ pc = "scale"
    /\ IF NRows(dataset) = 0
       THEN /\ pc' = "error"
            /\ UNCHANGED <<dataset, scaler>>
       ELSE /\ scaler' = RobustFit(dataset)
            /\ dataset' = RobustTransform(scaler', dataset)
            /\ pc' = "lag"
    /\ UNCHANGED <<dataframes, context_length, forecast_horizon, num_train,
                   num_test, num_valid, train_dataset, valid_dataset, test_dataset,
                   config, messages>>

\* lines 80-83
Lag ==
    /\ pc = "lag"
    /\ dataset' = LagRolling(dataset)
    /\ pc' = "fill2"
    /\ UNCHANGED <<dataframes, context_length, forecast_horizon, scaler, num_train,
                   num_test, num_valid, train_dataset, valid_dataset, test_dataset,
                   config, messages>>

\* lines 86-87
Fill2 ==
    /\ pc = "fill2"
    /\ dataset' = FillMissing(dataset)
    /\ pc' = "split"
    /\ UNCHANGED <<dataframes, context_length, forecast_horizon, scaler, num_train,
                   num_test, num_valid, train_dataset, valid_dataset, test_dataset,
                   config, messages>>

\* lines 90-97
Split ==
    /\ pc = "split"
    /\ num_train' = NumTrain(NRows(dataset))
    /\ num_test' = NumTest(NRows(dataset))
    /\ num_valid' = NumValid(NRows(dataset))
    /\ train_dataset' = DataFrame(TrainSlice(dataset))
    /\ valid_dataset' = DataFrame(ValidSlice(dataset))
    /\ test_dataset' = DataFrame(TestSlice(dataset))
    /\ pc' = "train_dataset"
    /\ UNCHANGED <<dataframes, dataset, context_length, forecast_horizon, scaler,
                   config, messages>>

\* target_columns=dataset.columns[index_start:]
TargetColumns == ColumnNames(dataset, FeatureCols(dataset))

\* lines 100-106
BuildTrain ==
    /\ pc = "train_dataset"
    /\ train_dataset' = ForecastDFDataset(train_dataset.data_df, TargetColumns,
                                          context_length, forecast_horizon)
    /\ pc' = "valid_dataset"
    /\ UNCHANGED <<dataframes, dataset, context_length, forecast_horizon, scaler,
                   num_train, num_test, num_valid, valid_dataset, test_dataset,
                   config, messages>>

\* lines 108-114
BuildValid ==
    /\ pc = "valid_dataset"
    /\ valid_dataset' = ForecastDFDataset(valid_dataset.data_df, TargetColumns,
                                          context_length, forecast_horizon)
    /\ pc' = "test_dataset"
    /\ UNCHANGED <<dataframes, dataset, context_length, forecast_horizon, scaler,
                   num_train, num_test, num_valid, train_dataset, test_dataset,
                   config, messages>>

\* lines 116-122
BuildTest ==
    /\ pc = "test_dataset"
    /\ test_dataset' = ForecastDFDataset(test_dataset.data_df, TargetColumns,
                                         context_length, forecast_horizon)
    /\ pc' = "config"
    /\ UNCHANGED <<dataframes, dataset, context_length, forecast_horizon, scaler,
                   num_train, num_test, num_valid, train_dataset, valid_dataset,
                   config, messages>>

\* len(dataset.columns[index_start:])
NumInputChannels(t) == Cardinality(FeatureCols(t))

\* lines 125-154: the model configuration, the model, the device message
Config ==
    /\ pc = "config"
    /\ config' = [num_input_channels |-> NumInputChannels(dataset),
                  context_length |-> context_length,
                  prediction_length |-> forecast_horizon]
    /\ messages' = Append(messages, [kind |-> "print", text |-> "Using device"])
    /\ pc' = "train"
    /\ UNCHANGED <<dataframes, dataset, context_length, forecast_horizon, scaler,
                   num_train, num_test, num_valid, train_dataset, valid_dataset,
                   test_dataset>>

\* lines 186-195: trainer.train() on train_dataset with valid_dataset for
\* evaluation.  The trainer is an external collaborator: what it does with a
\* dataset of no samples is its own choice, to go on or to raise.
Train ==
    /\ pc = "train"
    /\ \/ pc' = "predict"
       \/ /\ DatasetLen(train_dataset) = 0 \/ DatasetLen(valid_dataset) = 0
          /\ pc' = "error"
    /\ UNCHANGED <<dataframes, dataset, context_length, forecast_horizon, scaler,
                   num_train, num_test, num_valid, train_dataset, valid_dataset,
                   test_dataset, config, messages>>

\* lines 198-215: trainer.predict(test_dataset) and the printed error
Predict ==
    /\ pc = "predict"
    /\ \/ /\ messages' = Append(messages, [kind |-> "print", text |-> "Final Mean Squared Error (MSE)"])
          /\ pc' = "done"
       \/ /\ DatasetLen(test_dataset) = 0
          /\ pc' = "error"
          /\ UNCHANGED messages
    /\ UNCHANGED <<dataframes, dataset, context_length, forecast_horizon, scaler,
                   num_train, num_test, num_valid, train_dataset, valid_dataset,
                   test_dataset, config>>

Next ==
    \/ Outliers
    \/ Fill
    \/ Features
    \/ Scale
    \/ Lag
    \/ Fill2
    \/ Split
    \/ BuildTrain
    \/ BuildValid
    \/ BuildTest
    \/ Config
    \/ Train
    \/ Predict

Spec == Init /\ [][Next]_vars

-----------------------------------------------------------------------------
(* Properties *)

Raw == dataframes[1]

\* the number of channel columns read from the file
NumChannels == NCols(Raw) - 1

CalendarNames == <<"day_of_week", "day_of_month", "month", "hour">>

Built(ds) == ds.kind = "ForecastDFDataset"

SplitDone == train_dataset.kind # "unset"

Max0(k) == IF k > 0 THEN k ELSE 0

Range(f) == {f[k] : k \in DOMAIN f}

\* the rows of the processed table are in strictly increasing timestamp order
Chronological(t) ==
    \A i \in 1..(NRows(t) - 1) : RLess(t.rows[i][1], t.rows[i + 1][1])

\* seg holds exactly the rows lo+1 .. hi of the processed table
IsRange(seg, lo, hi) ==
    /\ NRows(seg) = hi - lo
    /\ \A p \in 1..NRows(seg) : seg.rows[p] = dataset.rows[lo + p]

\* C1: once the split has run, with N the row count of the processed table,
\* num_train = floor(0.7 N), num_test = floor(0.2 N), num_valid = N - num_train -
\* num_test, and the three segments are the rows [0, num_train),
\* [num_train, num_train + num_valid), [num_train + num_valid, N) of the table.
C1_SplitFloor ==
    SplitDone =>
        LET N == NRows(dataset)
        IN  /\ num_train = (7 * N) \div 10
            /\ num_test = (2 * N) \div 10
            /\ num_valid = N - num_train - num_test
            /\ IsRange(train_dataset.data_df, 0, num_train)
            /\ IsRange(valid_dataset.data_df, num_train, num_train + num_valid)
            /\ IsRange(test_dataset.data_df, num_train + num_valid, N)

\* what does hold of every split: whatever the three counts are, the segments
\* are consecutive ranges that cover the table
SplitPartition ==
    SplitDone =>
        /\ num_train >= 0 /\ num_valid >= 0 /\ num_test >= 0
        /\ num_train + num_valid + num_test = NRows(dataset)
        /\ IsRange(train_dataset.data_df, 0, num_train)
        /\ IsRange(valid_dataset.data_df, num_train, num_train + num_valid)
        /\ IsRange(test_dataset.data_df, num_train + num_valid, NRows(dataset))

\* every window of ds lies inside the segment, target right after context, and
\* the segment is the range lo+1 .. hi of the processed table
WindowsInside(ds, lo, hi) ==
    Built(ds) =>
        /\ IsRange(ds.data_df, lo, hi)
        /\ \A i \in 0..(DatasetLen(ds) - 1) :
              /\ ContextRows(ds, i) # {} /\ TargetRows(ds, i) # {}
              /\ ContextRows(ds, i) \cup TargetRows(ds, i) \subseteq 1..NRows(ds.data_df)
              /\ \A c \in ContextRows(ds, i) : \A g \in TargetRows(ds, i) : c < g
              /\ \E c \in ContextRows(ds, i) : c + 1 \in TargetRows(ds, i)

\* C2: for each of the three windowed datasets and each window start i, the
\* context and target rows lie inside that segment's own range of the processed
\* table, the target starts on the row after the context, and (timestamps being
\* strictly increasing) no window holds a row of another segment.
C2_NoLeakage ==
    SplitDone =>
        /\ Chronological(dataset)
        /\ WindowsInside(train_dataset, 0, num_train)
        /\ WindowsInside(valid_dataset, num_train, num_train + num_valid)
        /\ WindowsInside(test_dataset, num_train + num_valid, NRows(dataset))

\* all three datasets are built and each has at least one window
C2_Witness ==
    /\ Built(test_dataset)
    /\ DatasetLen(train_dataset) > 0
    /\ DatasetLen(valid_dataset) > 0
    /\ DatasetLen(test_dataset) > 0

\* the window starts i for which context and target fit in the segment
ValidStarts(ds) ==
    {i \in 0..NRows(ds.data_df) :
        ContextRows(ds, i) \cup TargetRows(ds, i) \subseteq 1..NRows(ds.data_df)}

CountIs(ds, segment_length) ==
    Built(ds) =>
        /\ NRows(ds.data_df) = segment_length
        /\ DatasetLen(ds) = Max0(segment_length - context_length - forecast_horizon + 1)
        /\ Cardinality(ValidStarts(ds)) = DatasetLen(ds)

Scenario ==
    /\ NRows(Raw) = 1000
    /\ NRows(dataset) = 1000
    /\ context_length = 50
    /\ forecast_horizon = 10

\* C3: a dataset built from a segment of segment_length rows has exactly
\* max(0, segment_length - context_length - forecast_horizon + 1) samples; and the
\* 1000-row table with 50/10 and no row filtered gives segments of 700/100/200
\* rows and 641/41/141 windows.
C3_WindowCount ==
    /\ CountIs(train_dataset, num_train)
    /\ CountIs(valid_dataset, num_valid)
    /\ CountIs(test_dataset, num_test)
    /\ (Scenario /\ Built(test_dataset)) =>
          /\ <<num_train, num_valid, num_test>> = <<700, 100, 200>>
          /\ <<DatasetLen(train_dataset), DatasetLen(valid_dataset),
               DatasetLen(test_dataset)>> = <<641, 41, 141>>

\* the scenario's datasets are built, and the validation dataset has a window
C3_Witness == Scenario /\ Built(test_dataset) /\ DatasetLen(valid_dataset) = 41

\* a dataset whose segment is one row short of a window: the formula gives exactly 0
C3_ZeroBoundary ==
    /\ Built(test_dataset)
    /\ NRows(test_dataset.data_df) = context_length + forecast_horizon - 1

\* every column of t has at least one non-missing value
EveryColumnObserved(t) == \A j \in 1..NCols(t) : ~AllNaN(t, j)

\* the output of the outlier and imputation filter is in place (lines 50-61 done)
Filtered == pc = "features"

\* C4 as stated: if every column of the input table has at least one non-missing
\* value, the output of the filter (row drop, forward fill, backward fill) has no
\* missing cell.
C4_ImputationTotality ==
    (Filtered /\ EveryColumnObserved(Raw)) => ~HasNaN(dataset)

\* C4 amended: if every column has at least one non-missing value in a row that
\* the IQR row drop keeps, the output of the filter has no missing cell.
C4_ImputationTotalityKept ==
    (Filtered /\ EveryColumnObserved(RemoveOutliers(Raw))) => ~HasNaN(dataset)

\* a table with missing cells and a dropped row comes out of the filter complete
C4_Witness ==
    /\ Filtered
    /\ HasNaN(Raw)
    /\ EveryColumnObserved(RemoveOutliers(Raw))
    /\ NRows(dataset) < NRows(Raw)
    /\ ~HasNaN(dataset)

\* the rows [0, num_train) of the processed table
TrainRows == 0..(num_train - 1)

\* C5: the scaler is fitted exactly once, and no row of the validation or test
\* segment is among the rows passed to the fit.
C5_FitOnTrainOnly ==
    SplitDone => (scaler.n_fits = 1 /\ scaler.fit_rows \subseteq TrainRows)

\* the names of the lag and rolling columns of the source columns `names`
RECURSIVE DerivedNames(_, _)
DerivedNames(names, k) ==
    IF k > Len(names) THEN <<>>
    ELSE <<names[k] \o "_lag1", names[k] \o "_rolling_mean", names[k] \o "_rolling_std">>
         \o DerivedNames(names, k + 1)

FeatureNames(t) == SubSeq(t.columns, index_start + 1, NCols(t))

\* the channels of the file, then the calendar channels
ScaledNames == FeatureNames(Raw) \o CalendarNames

\* C6 as stated: the scaler runs after every derived channel has been added, so
\* every non-timestamp column of the table handed to the split has been through
\* the scaler's transform.
C6_AllColumnsScaled ==
    pc = "split" => Range(FeatureNames(dataset)) \subseteq Range(scaler.feature_names_in)

\* C6 amended: the stages run in the order filter/impute -> calendar channels ->
\* scaling -> lag/rolling channels -> fill -> split -> windowing.  The scaler is
\* fitted once, on the file's channels and the four calendar channels; the lag
\* and rolling channels are derived afterwards from the scaled columns and are
\* in the table handed to the split without having been through the transform.
C6_StageOrder ==
    /\ pc \in {"outliers", "fill", "features"} =>
          /\ dataset.columns = Raw.columns
          /\ scaler.n_fits = 0
          /\ ~SplitDone
    /\ pc = "scale" =>
          /\ FeatureNames(dataset) = ScaledNames
          /\ scaler.n_fits = 0
          /\ ~SplitDone
    /\ pc = "lag" =>
          /\ FeatureNames(dataset) = ScaledNames
          /\ scaler.n_fits = 1
          /\ scaler.feature_names_in = ScaledNames
          /\ ~SplitDone
    /\ pc \in {"fill2", "split"} =>
          /\ FeatureNames(dataset) = ScaledNames \o DerivedNames(ScaledNames, 1)
          /\ scaler.n_fits = 1
          /\ scaler.feature_names_in = ScaledNames
          /\ ~SplitDone
    /\ SplitDone =>
          /\ FeatureNames(dataset) = ScaledNames \o DerivedNames(ScaledNames, 1)
          /\ scaler.n_fits = 1
          /\ scaler.feature_names_in = ScaledNames
    /\ Built(train_dataset) => SplitDone

\* the table handed to the split holds scaled and derived columns
C6_Witness ==
    /\ pc = "split"
    /\ scaler.n_fits = 1
    /\ NCols(dataset) > 1 + Len(scaler.feature_names_in)

\* the model configuration has been built (line 144 passed)
Configured == config # NoConfig

\* C7 as stated: lag and rolling channels are derived for the C original channels
\* only, the processed table has C + 4 + 3C non-timestamp columns, and
\* num_input_channels is that number.
C7_ChannelCount ==
    Configured =>
        /\ Len(FeatureNames(dataset)) = NumChannels + 4 + 3 * NumChannels
        /\ config.num_input_channels = NumChannels + 4 + 3 * NumChannels

\* C7 amended: lag and rolling channels are derived for every non-timestamp
\* column present when the loop starts, the C original channels and the four
\* calendar channels, and for no lag or rolling column; the processed table has
\* 4 * (C + 4) non-timestamp columns and num_input_channels is that number.
C7_ChannelCountAll ==
    Configured =>
        /\ FeatureNames(dataset) = ScaledNames \o DerivedNames(ScaledNames, 1)
        /\ Len(FeatureNames(dataset)) = 4 * (NumChannels + 4)
        /\ config.num_input_channels = 4 * (NumChannels + 4)

\* a run with two channels reaches the trainer with 24 input channels
C7_Witness == pc = "train" /\ NumChannels = 2 /\ config.num_input_channels = 24

Short(ds) == NRows(ds.data_df) < context_length + forecast_horizon

Warned(segment) ==
    \E k \in DOMAIN messages :
        messages[k].kind = "warning" /\ messages[k].segment = segment

\* C8: when the trainer is about to be invoked, every segment shorter than
\* context_length + prediction_length has an empty dataset and a warning naming
\* it has been reported; and the run does not end in a crash.
C8_ShortSegmentWarned ==
    /\ pc = "train" =>
          /\ Short(train_dataset) => (DatasetLen(train_dataset) = 0 /\ Warned("train"))
          /\ Short(valid_dataset) => (DatasetLen(valid_dataset) = 0 /\ Warned("validation"))
          /\ Short(test_dataset) => (DatasetLen(test_dataset) = 0 /\ Warned("test"))
    /\ (SplitDone /\ (Short(train_dataset) \/ Short(valid_dataset) \/ Short(test_dataset)))
          => pc # "error"

\* column j of the input has a zero interquartile range
ZeroIQR(j) == ~IsNaN(IQR(Raw, j)) /\ IQR(Raw, j).n = 0

OutlierIn(row, j) ==
    RLess(row[j], LowerFence(Raw, j)) \/ RLess(UpperFence(Raw, j), row[j])

\* the row drop of line 57 has run and nothing else has touched the table
Dropped(row) == row \notin Range(dataset.rows)

\* C9 as stated: a column with a zero interquartile range drops no row; a row is
\* dropped only because of another column.
C9_ZeroIQRNoOp ==
    pc = "fill" =>
        \A j \in numeric_columns(Raw) :
            ZeroIQR(j) =>
                \A row \in Range(Raw.rows) :
                    Dropped(row) =>
                        \E o \in numeric_columns(Raw) \ {j} : OutlierIn(row, o)

\* C9 amended: for a column with a zero interquartile range (Q1 = Q3) the filter
\* keeps, as far as that column goes, exactly the rows whose value is Q1 or
\* missing: every row with another value is dropped, and a dropped row has
\* another value there or lies outside the fences of another column.
C9_ZeroIQRKeepsQ1 ==
    pc = "fill" =>
        \A j \in numeric_columns(Raw) :
            ZeroIQR(j) =>
                \A row \in Range(Raw.rows) :
                    LET off == ~IsNaN(row[j]) /\ row[j] # Q1(Raw, j)
                    IN  /\ off => Dropped(row)
                        /\ Dropped(row) =>
                              \/ off
                              \/ \E o \in numeric_columns(Raw) \ {j} : OutlierIn(row, o)

\* a column with zero interquartile range has cost a row below Q1
C9_Witness ==
    /\ pc = "fill"
    /\ \E j \in numeric_columns(Raw) :
          /\ ZeroIQR(j)
          /\ \E row \in Range(Raw.rows) : Dropped(row) /\ RLess(row[j], Q1(Raw, j))

\* a channel column of the input is entirely missing
SomeChannelMissing ==
    NRows(Raw) > 0 /\ \E j \in numeric_columns(Raw) : AllNaN(Raw, j)

\* the statements that hand a segment to the sliding-window indexer, and later
AtIndexer ==
    pc \in {"train_dataset", "valid_dataset", "test_dataset", "config", "train",
            "predict", "done"}

\* C10: with a channel column entirely missing the run stops before any
\* windowed dataset is built and before the trainer runs; and no table with a
\* missing cell is handed to the sliding-window indexer.
C10_MissingColumnFatal ==
    /\ SomeChannelMissing => ~AtIndexer
    /\ pc = "train_dataset" => ~HasNaN(train_dataset.data_df)
    /\ pc = "valid_dataset" => ~HasNaN(valid_dataset.data_df)
    /\ pc = "test_dataset" => ~HasNaN(test_dataset.data_df)

====
